---- MODULE Spec2Model ----
(***************************************************************************)
(* A model of maptype's driver (processTypes / visit / handleDeclaration)  *)
(* and of its recursive fold (processType / processObjectType /            *)
(* processProperty) over a finite table of type handles.  The handlers of  *)
(* the type map are caller code: a handler call is modelled as a frame on  *)
(* a call stack that may invoke any of the thunks it was given, any number *)
(* of times, before it returns; MaxInvoke bounds the thunk invocations     *)
(* made while one declaration is folded.                                   *)
(***************************************************************************)
EXTENDS Integers, Sequences, FiniteSets, TLC

\* Bounds of the model.
MaxStmts == 2
MaxInvoke == 2

DEFAULT_FILE_NAME == "maptype.ts"

\* The value `undefined` where the code expects a ts.Type.
NoType == 0

(***************************************************************************)
(* The resolution context: what the type checker answers for each handle.  *)
(***************************************************************************)
Blank ==
    [ text |-> "", literal |-> FALSE, primitive |-> FALSE,
      basicObject |-> FALSE, aliasName |-> "", aliasTypeArguments |-> <<>>,
      union |-> FALSE, intersection |-> FALSE, types |-> <<>>,
      tuple |-> FALSE, hasRestElement |-> FALSE, fixedLength |-> 0,
      typeArguments |-> <<>>, array |-> FALSE,
      numberIndexType |-> NoType, stringIndexType |-> NoType,
      callable |-> FALSE, parameters |-> <<>>, returnType |-> NoType,
      object |-> FALSE, properties |-> <<>>,
      void |-> FALSE, anyOrUnknown |-> FALSE ]

Prop(n, q, t) == [name |-> n, questionToken |-> q, type |-> t]

Types ==
    <<
    \* 1: string
    [Blank EXCEPT !.text = "string", !.primitive = TRUE],
    \* 2: number
    [Blank EXCEPT !.text = "number", !.primitive = TRUE],
    \* 3: "a"
    [Blank EXCEPT !.text = "\"a\"", !.literal = TRUE],
    \* 4: undefined
    [Blank EXCEPT !.text = "undefined", !.primitive = TRUE],
    \* 5: a primitive whose textual name is none of the five known ones
    [Blank EXCEPT !.text = "bigint", !.primitive = TRUE],
    \* 6: never (no test holds)
    [Blank EXCEPT !.text = "never"],
    \* 7: void
    [Blank EXCEPT !.text = "void", !.void = TRUE],
    \* 8: unknown
    [Blank EXCEPT !.text = "unknown", !.anyOrUnknown = TRUE],
    \* 9: {}
    [Blank EXCEPT !.text = "{}", !.basicObject = TRUE, !.object = TRUE],
    \* 10: Record<string, {x: number, y: number}>
    [Blank EXCEPT !.text = "Record<string, { x: number; y: number; }>",
                  !.aliasName = "Record", !.aliasTypeArguments = <<1, 21>>,
                  !.stringIndexType = 21, !.object = TRUE],
    \* 11: number | undefined, enumerated by the checker as undefined, number
    [Blank EXCEPT !.text = "number | undefined", !.union = TRUE,
                  !.types = <<4, 2>>],
    \* 12: {[k: string]: number} & {x: number, y: number}
    [Blank EXCEPT !.text = "{ [k: string]: number; } & { x: number; y: number; }",
                  !.intersection = TRUE, !.types = <<16, 21>>],
    \* 13: ["a", number]
    [Blank EXCEPT !.text = "[\"a\", number]", !.tuple = TRUE,
                  !.fixedLength = 2, !.typeArguments = <<3, 2>>,
                  !.array = TRUE, !.numberIndexType = 22, !.object = TRUE],
    \* 14: [number, ...string[]]; the type arguments of a tuple type end with
    \* the element type of its rest element
    [Blank EXCEPT !.text = "[number, ...string[]]", !.tuple = TRUE,
                  !.hasRestElement = TRUE, !.fixedLength = 1,
                  !.typeArguments = <<2, 1>>,
                  !.array = TRUE, !.numberIndexType = 22, !.object = TRUE],
    \* 15: string[]
    [Blank EXCEPT !.text = "string[]", !.array = TRUE,
                  !.numberIndexType = 1, !.object = TRUE],
    \* 16: {[k: string]: number}
    [Blank EXCEPT !.text = "{ [k: string]: number; }",
                  !.stringIndexType = 2, !.object = TRUE],
    \* 17: {[k: number]: string}
    [Blank EXCEPT !.text = "{ [k: number]: string; }",
                  !.numberIndexType = 1, !.object = TRUE],
    \* 18: {[k: string]: string | number; [k: number]: number}
    [Blank EXCEPT !.text = "{ [k: string]: string | number; [k: number]: number; }",
                  !.stringIndexType = 22, !.numberIndexType = 2,
                  !.object = TRUE],
    \* 19: (s: string) => void
    [Blank EXCEPT !.text = "(s: string) => void", !.callable = TRUE,
                  !.parameters = <<1>>, !.returnType = 7, !.object = TRUE],
    \* 20: {foo: string, bar?: number}
    [Blank EXCEPT !.text = "Test", !.object = TRUE,
                  !.properties = <<Prop("foo", FALSE, 1),
                                   Prop("bar", TRUE, 11)>>],
    \* 21: {x: number, y: number}
    [Blank EXCEPT !.text = "{ x: number; y: number; }", !.object = TRUE,
                  !.properties = <<Prop("x", FALSE, 2),
                                   Prop("y", FALSE, 2)>>],
    \* 22: string | number
    [Blank EXCEPT !.text = "string | number", !.union = TRUE,
                  !.types = <<1, 2>>],
    \* 23: {a?: unknown, b: string[], c?: unknown}
    [Blank EXCEPT !.text = "{ a?: unknown; b: string[]; c?: unknown; }",
                  !.object = TRUE,
                  !.properties = <<Prop("a", TRUE, 8), Prop("b", FALSE, 15),
                                   Prop("c", TRUE, 8)>>]
    >>

Handles == 1..Len(Types)

\* checker.typeToString(type)
typeToString(t) == Types[t].text

\* type.getNumberIndexType() / type.getStringIndexType()
getNumberIndexType(t) == Types[t].numberIndexType
getStringIndexType(t) == Types[t].stringIndexType

\* checker.getPropertiesOfType(type)
getPropertiesOfType(t) == Types[t].properties

\* checker.getTypeOfSymbolAtLocation(s, s.valueDeclaration) of a property
getTypeOfSymbolAtLocation(p) == p.type

(***************************************************************************)
(* The category tests of ./type.                                           *)
(***************************************************************************)
isLiteralType(t) == Types[t].literal
isPrimitiveType(t) == Types[t].primitive
isBasicObjectType(t) == Types[t].basicObject
isRecordType(t) ==
    Types[t].aliasName = "Record" /\ Len(Types[t].aliasTypeArguments) = 2
isUnion(t) == Types[t].union
isIntersection(t) == Types[t].intersection
isTupleType(t) == Types[t].tuple
isArrayType(t) == Types[t].array
isStringIndexedObjectType(t) ==
    getStringIndexType(t) # NoType /\ getNumberIndexType(t) = NoType
isNumberIndexedType(t) == getNumberIndexType(t) # NoType
isFunctionType(t) == Types[t].callable
isObjectType(t) == Types[t].object
isVoid(t) == Types[t].void
isAnyOrUnknown(t) == Types[t].anyOrUnknown

(***************************************************************************)
(* The fold.  A thunk is represented by the handle its body folds when it  *)
(* is invoked; a handler call by the handler's name and its arguments.     *)
(***************************************************************************)
NoArgs ==
    [ val |-> "", thunks |-> <<>>, properties |-> <<>>,
      optionalProperties |-> <<>>, return |-> "none" ]

Call(t, h, a) ==
    [threw |-> FALSE, error |-> "", type |-> t, handler |-> h, args |-> a,
     warn |-> FALSE]

Throw(t, e) ==
    [threw |-> TRUE, error |-> e, type |-> t, handler |-> "", args |-> NoArgs,
     warn |-> FALSE]

\* variant: the required list is not filtered
unfilteredProperties(t) == getPropertiesOfType(t)

\* properties.filter(p => !p.valueDeclaration.questionToken)
requiredProperties(t) ==
    SelectSeq(getPropertiesOfType(t), LAMBDA p : ~p.questionToken)

\* properties.filter(p => p.valueDeclaration.questionToken)
optionalProperties(t) ==
    SelectSeq(getPropertiesOfType(t), LAMBDA p : p.questionToken)

\* [p.name, () => propertyProcessor(p)]
PropertyThunk(p) == [key |-> p.name, thunk |-> getTypeOfSymbolAtLocation(p)]

processObjectType(t) ==
    Call(t, "object",
         [NoArgs EXCEPT
            !.properties =
                [i \in 1..Len(requiredProperties(t)) |->
                    PropertyThunk(requiredProperties(t)[i])],
            !.optionalProperties =
                [i \in 1..Len(optionalProperties(t)) |->
                    PropertyThunk(optionalProperties(t)[i])]])

primitiveBranch(t) ==
    IF typeToString(t) \in {"string", "number", "boolean", "null", "undefined"}
    THEN Call(t, typeToString(t), NoArgs)
    ELSE Throw(t, "Unknown primitive type")

recordBranch(t) ==
    Call(t, "record", [NoArgs EXCEPT !.thunks = Types[t].aliasTypeArguments])

tupleBranch(t) ==
    [Call(t, "tuple", [NoArgs EXCEPT !.thunks = Types[t].typeArguments])
        EXCEPT !.warn = Types[t].hasRestElement]

stringIndexBranch(t) ==
    Call(t, "stringIndexObject",
         [NoArgs EXCEPT !.thunks = <<getStringIndexType(t)>>])

numberIndexBranch(t) ==
    Call(t, "numberIndexObject",
         [NoArgs EXCEPT !.thunks = <<getStringIndexType(t)>>])

\* variant: the signature's parameter and return types are passed as thunks
functionBranchWithSignature(t) ==
    Call(t, "function",
         [NoArgs EXCEPT !.thunks = Types[t].parameters \o <<Types[t].returnType>>,
                        !.return = "thunk"])

functionBranch(t) ==
    Call(t, "function", [NoArgs EXCEPT !.thunks = <<>>, !.return = "null"])

\* variant: the Array test is made before the Tuple test
processTypeArrayFirst(t) ==
    IF t = NoType THEN Throw(t, "TypeError")
    ELSE IF isLiteralType(t)
        THEN Call(t, "literal", [NoArgs EXCEPT !.val = typeToString(t)])
    ELSE IF isPrimitiveType(t) THEN primitiveBranch(t)
    ELSE IF isBasicObjectType(t) THEN Call(t, "emptyObject", NoArgs)
    ELSE IF isRecordType(t) THEN recordBranch(t)
    ELSE IF isUnion(t)
        THEN Call(t, "union", [NoArgs EXCEPT !.thunks = Types[t].types])
    ELSE IF isIntersection(t)
        THEN Call(t, "intersection", [NoArgs EXCEPT !.thunks = Types[t].types])
    ELSE IF isArrayType(t)
        THEN Call(t, "array", [NoArgs EXCEPT !.thunks = <<getNumberIndexType(t)>>])
    ELSE IF isTupleType(t) THEN tupleBranch(t)
    ELSE IF isStringIndexedObjectType(t) THEN stringIndexBranch(t)
    ELSE IF isNumberIndexedType(t) THEN numberIndexBranch(t)
    ELSE IF isFunctionType(t) THEN functionBranch(t)
    ELSE IF isObjectType(t) THEN processObjectType(t)
    ELSE IF isVoid(t) THEN Call(t, "void", NoArgs)
    ELSE IF isAnyOrUnknown(t) THEN Call(t, "unknown", NoArgs)
    ELSE Throw(t, "Unknown type with type flags")

\* processType(typemap)(checker)(type), up to and including the handler call
processType(t) ==
    IF t = NoType THEN Throw(t, "TypeError")
    ELSE IF isLiteralType(t)
        THEN Call(t, "literal", [NoArgs EXCEPT !.val = typeToString(t)])
    ELSE IF isPrimitiveType(t) THEN primitiveBranch(t)
    ELSE IF isBasicObjectType(t) THEN Call(t, "emptyObject", NoArgs)
    ELSE IF isRecordType(t) THEN recordBranch(t)
    ELSE IF isUnion(t)
        THEN Call(t, "union", [NoArgs EXCEPT !.thunks = Types[t].types])
    ELSE IF isIntersection(t)
        THEN Call(t, "intersection", [NoArgs EXCEPT !.thunks = Types[t].types])
    ELSE IF isTupleType(t) THEN tupleBranch(t)
    ELSE IF isArrayType(t)
        THEN Call(t, "array", [NoArgs EXCEPT !.thunks = <<getNumberIndexType(t)>>])
    ELSE IF isStringIndexedObjectType(t) THEN stringIndexBranch(t)
    ELSE IF isNumberIndexedType(t) THEN numberIndexBranch(t)
    ELSE IF isFunctionType(t) THEN functionBranch(t)
    ELSE IF isObjectType(t) THEN processObjectType(t)
    ELSE IF isVoid(t) THEN Call(t, "void", NoArgs)
    ELSE IF isAnyOrUnknown(t) THEN Call(t, "unknown", NoArgs)
    ELSE Throw(t, "Unknown type with type flags")

\* The thunks a handler call holds, in argument order.
AllThunks(a) ==
    a.thunks
      \o [i \in 1..Len(a.properties) |-> a.properties[i].thunk]
      \o [i \in 1..Len(a.optionalProperties) |-> a.optionalProperties[i].thunk]

(***************************************************************************)
(* The source program: syntax nodes.                                       *)
(***************************************************************************)
Decl(n, t) == [name |-> n, type |-> t]
Node(k, d, b) == [kind |-> k, declarations |-> d, body |-> b]

TypeAlias(n, t) == Node("TypeAliasDeclaration", <<Decl(n, t)>>, <<>>)
Interface(n, t) == Node("InterfaceDeclaration", <<Decl(n, t)>>, <<>>)
Variable(ds) == Node("VariableStatement", ds, <<>>)
Module(n, b) == Node("ModuleDeclaration", <<Decl(n, NoType)>>, b)
Other == Node("ExpressionStatement", <<>>, <<>>)
EndOfFileToken == Node("EndOfFileToken", <<>>, <<>>)

AliasedHandles == {5, 6, 10, 13, 14, 17, 18, 19, 23}

Statements ==
    { TypeAlias("A", t) : t \in AliasedHandles }
      \cup { Interface("I", 20),
             Variable(<<Decl("v", 12), Decl("w", 9)>>),
             Module("N", <<Module("M", <<Interface("J", 21)>>),
                           TypeAlias("B", 2)>>),
             Other }

SeqsUpTo(S, n) == UNION { [1..k -> S] : k \in 0..n }

Programs == SeqsUpTo(Statements, MaxStmts)

Configs ==
    { [followImports |-> FALSE, fileNames |-> {}],
      [followImports |-> FALSE, fileNames |-> {DEFAULT_FILE_NAME}],
      [followImports |-> TRUE, fileNames |-> {}] }

isDeclaration(node) ==
    node.kind \in {"TypeAliasDeclaration", "VariableStatement",
                   "InterfaceDeclaration"}

isModuleDeclaration(node) == node.kind = "ModuleDeclaration"

\* ts.forEachChild(node, cb): the children cb is applied to, in order
Children(node) ==
    CASE node.kind = "SourceFile" -> node.body \o <<EndOfFileToken>>
      [] node.kind = "ModuleDeclaration" ->
            << Node("Identifier", <<>>, <<>>),
               Node("ModuleBlock", <<>>, node.body) >>
      [] node.kind = "ModuleBlock" -> node.body
      [] OTHER -> <<>>

\* node.getSourceFile().fileName: every node visited belongs to the program's
\* root file
getSourceFileName(node) == DEFAULT_FILE_NAME

VARIABLES
    config,     \* the TsToIoConfig of the run
    source,     \* the statements of the source text
    agenda,     \* nodes the pending forEachChild iterations still visit
    cur,        \* symbol.name of the declaration being handled
    stack,      \* handler calls in progress (indices into folds), innermost last
    result,     \* the result array of processTypes
    status,     \* "running", "returned" or "threw"
    returned,   \* what the caller of processTypes received
    extracted,  \* number of declarations whose symbol and type were resolved
    folds,      \* processType entries of the current declaration
    invokes,    \* thunk invocations of the current declaration
    warnings    \* console.warn calls of the current declaration

vars == << config, source, agenda, cur, stack, result, status, returned,
           extracted, folds, invokes, warnings >>

NotReturned == [present |-> FALSE, value |-> <<>>]

Init ==
    /\ config \in Configs
    /\ source \in Programs
    /\ agenda = Children(Node("SourceFile", <<>>, source))
    /\ cur = ""
    /\ stack = <<>>
    /\ result = <<>>
    /\ status = "running"
    /\ returned = NotReturned
    /\ extracted = 0
    /\ folds = <<>>
    /\ invokes = <<>>
    /\ warnings = <<>>

Idle == status = "running" /\ stack = <<>>

\* variant: the file name is not looked up in fileNames
AdmitsFollowOnly(node) == config.followImports

\* the negation of visit's early-return condition
Admits(node) ==
    config.followImports \/ getSourceFileName(node) \in config.fileNames

\* variant: handleDeclaration swallows the error and the visitor goes on
EnterSwallow(t, parent, via, base, warned) ==
    LET o == processType(t)
        entry == [type |-> t, parent |-> parent, via |-> via,
                  threw |-> o.threw, error |-> o.error,
                  handler |-> o.handler, args |-> o.args]
    IN  /\ folds' = Append(base, entry)
        /\ status' = "running"
        /\ IF o.threw
           THEN /\ stack' = <<>>
                /\ warnings' = warned
           ELSE /\ stack' = Append(stack, Len(base) + 1)
                /\ warnings' = IF o.warn THEN Append(warned, t) ELSE warned

\* One processType entry: logs it, then either the handler call begins
\* (a frame is pushed) or the error unwinds the whole run.
Enter(t, parent, via, base, warned) ==
    LET o == processType(t)
        entry == [type |-> t, parent |-> parent, via |-> via,
                  threw |-> o.threw, error |-> o.error,
                  handler |-> o.handler, args |-> o.args]
    IN  /\ folds' = Append(base, entry)
        /\ IF o.threw
           THEN /\ status' = "threw"
                /\ stack' = <<>>
                /\ warnings' = warned
           ELSE /\ status' = "running"
                /\ stack' = Append(stack, Len(base) + 1)
                /\ warnings' = IF o.warn THEN Append(warned, t) ELSE warned

\* visit: early return
VisitSkip ==
    /\ Idle /\ agenda # <<>>
    /\ ~Admits(Head(agenda))
    /\ agenda' = Tail(agenda)
    /\ UNCHANGED << config, source, cur, stack, result, status, returned,
                    extracted, folds, invokes, warnings >>

\* variant: the last binding of a variable statement is taken
lastDeclaration(node) == node.declarations[Len(node.declarations)]

\* handleDeclaration: the binding whose symbol and type are resolved; for a
\* variable statement, declarationList.declarations[0]
declarationOf(node) == node.declarations[1]

\* visit -> handleDeclaration -> processType
VisitDeclaration ==
    /\ Idle /\ agenda # <<>>
    /\ Admits(Head(agenda))
    /\ isDeclaration(Head(agenda))
    /\ LET d == declarationOf(Head(agenda))
       IN  /\ cur' = d.name
           /\ extracted' = extracted + 1
           /\ invokes' = <<>>
           /\ Enter(d.type, 0, 0, <<>>, <<>>)
    /\ agenda' = Tail(agenda)
    /\ UNCHANGED << config, source, result, returned >>

\* visit: a module declaration
VisitModule ==
    /\ Idle /\ agenda # <<>>
    /\ Admits(Head(agenda))
    /\ ~isDeclaration(Head(agenda))
    /\ isModuleDeclaration(Head(agenda))
    /\ agenda' = Children(Head(agenda)) \o Tail(agenda)
    /\ UNCHANGED << config, source, cur, stack, result, status, returned,
                    extracted, folds, invokes, warnings >>

\* visit: any other node
VisitOther ==
    /\ Idle /\ agenda # <<>>
    /\ Admits(Head(agenda))
    /\ ~isDeclaration(Head(agenda))
    /\ ~isModuleDeclaration(Head(agenda))
    /\ agenda' = Tail(agenda)
    /\ UNCHANGED << config, source, cur, stack, result, status, returned,
                    extracted, folds, invokes, warnings >>

Top == stack[Len(stack)]

\* variant: a thunk remembers its value, a second invocation folds nothing
InvokeThunkMemo(i) ==
    /\ status = "running" /\ stack # <<>>
    /\ Len(invokes) < MaxInvoke
    /\ i \in 1..Len(AllThunks(folds[Top].args))
    /\ invokes' = Append(invokes, [call |-> Top, thunk |-> i])
    /\ IF \E k \in 1..Len(invokes) :
            invokes[k].call = Top /\ invokes[k].thunk = i
       THEN UNCHANGED << folds, stack, status, warnings >>
       ELSE Enter(AllThunks(folds[Top].args)[i], Top, i, folds, warnings)
    /\ UNCHANGED << config, source, agenda, cur, result, returned, extracted >>

\* the running handler invokes the i-th thunk it was given
InvokeThunk(i) ==
    /\ status = "running" /\ stack # <<>>
    /\ Len(invokes) < MaxInvoke
    /\ i \in 1..Len(AllThunks(folds[Top].args))
    /\ invokes' = Append(invokes, [call |-> Top, thunk |-> i])
    /\ Enter(AllThunks(folds[Top].args)[i], Top, i, folds, warnings)
    /\ UNCHANGED << config, source, agenda, cur, result, returned, extracted >>

\* the handler is caller code: it may invoke any thunk it holds
InvokeSomeThunk ==
    /\ stack # <<>>
    /\ \E i \in 1..Len(AllThunks(folds[Top].args)) : InvokeThunk(i)

\* what a handler call evaluates to: the typemap is caller code, its value is
\* opaque to the engine and identified here by the call that produced it
ResultOf(call) == [handler |-> call.handler, type |-> call.type]

\* the running handler returns; the outermost return ends handleDeclaration
\* and visit pushes the binding
HandlerReturn ==
    /\ status = "running" /\ stack # <<>>
    /\ stack' = SubSeq(stack, 1, Len(stack) - 1)
    /\ result' = IF Len(stack) = 1
                 THEN Append(result, [name |-> cur,
                                      result |-> ResultOf(folds[Top])])
                 ELSE result
    /\ UNCHANGED << config, source, agenda, cur, status, returned, extracted,
                    folds, invokes, warnings >>

\* processTypes: forEachChild over the source file is over, return result
Return ==
    /\ Idle /\ agenda = <<>>
    /\ status' = "returned"
    /\ returned' = [present |-> TRUE, value |-> result]
    /\ UNCHANGED << config, source, agenda, cur, stack, result, extracted,
                    folds, invokes, warnings >>

Next ==
    \/ VisitSkip
    \/ VisitDeclaration
    \/ VisitModule
    \/ VisitOther
    \/ InvokeSomeThunk
    \/ HandlerReturn
    \/ Return

Spec == Init /\ [][Next]_vars

(***************************************************************************)
(* Properties.                                                             *)
(***************************************************************************)
Admitted == config.followImports \/ DEFAULT_FILE_NAME \in config.fileNames

TopLevelDeclarations == SelectSeq(source, isDeclaration)

FoldIds == 1..Len(folds)

FoldsVia(c, i) == { k \in FoldIds : folds[k].parent = c /\ folds[k].via = i }

InvokesOf(c, i) ==
    { k \in 1..Len(invokes) : invokes[k].call = c /\ invokes[k].thunk = i }

OnStack(c) == \E k \in 1..Len(stack) : stack[k] = c

\* C1: the bindings pushed so far are, in order, the first bindings of the
\* leading top-level type-alias / interface / variable statements, each with
\* the value folded from that binding's type; when processTypes returns there
\* is exactly one binding per such statement and none for any other statement.
BindingsFollowSource ==
    Admitted =>
        /\ Len(result) <= Len(TopLevelDeclarations)
        /\ \A i \in 1..Len(result) :
              /\ result[i].name = TopLevelDeclarations[i].declarations[1].name
              /\ result[i].result.type =
                    TopLevelDeclarations[i].declarations[1].type
        /\ status = "returned" =>
              /\ returned.present
              /\ returned.value = result
              /\ Len(returned.value) = Len(TopLevelDeclarations)

\* C1 witness: a two-binding variable statement followed by a type alias was
\* visited and the run returned two bindings.
BindingsFollowSourceWitness ==
    /\ status = "returned" /\ Admitted
    /\ Len(source) = 2
    /\ source[1].kind = "VariableStatement"
    /\ Len(source[1].declarations) = 2
    /\ source[2].kind = "TypeAliasDeclaration"
    /\ Len(returned.value) = 2
    /\ returned.value[1].name = "v"
    /\ returned.value[2].name = "A"

RECURSIVE Flatten(_)
\* the declarations of a statement list in document order, namespace bodies
\* included at the position of the namespace
Flatten(stmts) ==
    IF stmts = <<>> THEN <<>>
    ELSE (IF isDeclaration(Head(stmts)) THEN <<Head(stmts)>>
          ELSE IF isModuleDeclaration(Head(stmts)) THEN Flatten(Head(stmts).body)
          ELSE <<>>) \o Flatten(Tail(stmts))

\* C2: when processTypes returns, the result holds one binding for every
\* declaration of the source, those inside namespace bodies (at any depth)
\* included, in document order.
NamespaceMembersBound ==
    (status = "returned" /\ Admitted) =>
        /\ Len(returned.value) = Len(Flatten(source))
        /\ \A i \in 1..Len(returned.value) :
              i <= Len(Flatten(source)) =>
                returned.value[i].name = Flatten(source)[i].declarations[1].name

\* C3: processType is entered once for the declaration and once per thunk
\* invocation and never otherwise: for every handler call and every thunk it
\* was given, the folds made through that thunk are as many as its
\* invocations (none if it was never invoked, one more at each invocation)
\* and each folds the handle the thunk wraps.
ThunksAreLazy ==
    /\ \A c \in FoldIds :
          ~folds[c].threw =>
            \A i \in 1..Len(AllThunks(folds[c].args)) :
              /\ Cardinality(FoldsVia(c, i)) = Cardinality(InvokesOf(c, i))
              /\ \A k \in FoldsVia(c, i) :
                    folds[k].type = AllThunks(folds[c].args)[i]
    /\ \A k \in FoldIds : folds[k].parent = 0 <=> k = 1
    /\ \A k \in FoldIds :
          folds[k].parent # 0 =>
            /\ folds[k].parent < k
            /\ ~folds[folds[k].parent].threw
            /\ folds[k].via \in 1..Len(AllThunks(folds[folds[k].parent].args))
    /\ folds # <<>> => Len(folds) = 1 + Len(invokes)

\* C3 witness: a handler call has returned having invoked one of its thunks
\* twice (two folds) and another not at all (no fold).
ThunksAreLazyWitness ==
    \E c \in FoldIds :
        /\ ~folds[c].threw /\ ~OnStack(c) /\ status = "running"
        /\ \E i, j \in 1..Len(AllThunks(folds[c].args)) :
              /\ Cardinality(InvokesOf(c, i)) = 2
              /\ Cardinality(FoldsVia(c, i)) = 2
              /\ Cardinality(InvokesOf(c, j)) = 0
              /\ Cardinality(FoldsVia(c, j)) = 0

\* the category tests in the documented order, and the handler of each
CategoryTests(t) ==
    << isLiteralType(t), isPrimitiveType(t), isBasicObjectType(t),
       isRecordType(t), isUnion(t), isIntersection(t), isTupleType(t),
       isArrayType(t), isStringIndexedObjectType(t), isNumberIndexedType(t),
       isFunctionType(t), isObjectType(t), isVoid(t), isAnyOrUnknown(t) >>

CategoryHandlers(t) ==
    << "literal", typeToString(t), "emptyObject", "record", "union",
       "intersection", "tuple", "array", "stringIndexObject",
       "numberIndexObject", "function", "object", "void", "unknown" >>

\* the position of the first category whose test holds, 0 if none does
FirstCategoryOf ==
    [ t \in Handles |->
        IF \E k \in DOMAIN CategoryTests(t) : CategoryTests(t)[k]
        THEN CHOOSE k \in DOMAIN CategoryTests(t) :
                /\ CategoryTests(t)[k]
                /\ \A j \in 1..(k - 1) : ~CategoryTests(t)[j]
        ELSE 0 ]

FirstCategory(t) == FirstCategoryOf[t]

HasOnlyStringIndex(t) ==
    getStringIndexType(t) # NoType /\ getNumberIndexType(t) = NoType

\* C4 (amended): every fold of a handle calls the handler of the first
\* category whose test holds, in the documented order, and no other; a fold
\* fails only if no test holds or the primitive's name is unrecognised; a type
\* passing both the Tuple and the Array test goes to the tuple handler; a type
\* with a string index signature and no numeric one goes to the
\* stringIndexObject handler unless an earlier category (Literal .. Array)
\* claims it, and never to the object handler.
DispatchFollowsPrecedence ==
    \A c \in FoldIds :
        folds[c].type # NoType =>
            LET t == folds[c].type
                k == FirstCategory(t)
            IN  /\ ~folds[c].threw =>
                      /\ k # 0
                      /\ folds[c].handler = CategoryHandlers(t)[k]
                /\ folds[c].threw =>
                      \/ k = 0
                      \/ /\ k = 2
                         /\ typeToString(t) \notin {"string", "number",
                                "boolean", "null", "undefined"}
                /\ (~folds[c].threw /\ isTupleType(t) /\ isArrayType(t)) =>
                      folds[c].handler = "tuple"
                /\ (~folds[c].threw /\ HasOnlyStringIndex(t) /\ k >= 9) =>
                      folds[c].handler = "stringIndexObject"
                /\ HasOnlyStringIndex(t) => folds[c].handler # "object"

\* C4 witness: a type with a string index signature only, which is an object
\* type too and which no earlier category claims, was folded below an
\* intersection and went to the stringIndexObject handler.
DispatchFollowsPrecedenceWitness ==
    \E c \in FoldIds :
        /\ folds[c].parent # 0
        /\ folds[folds[c].parent].handler = "intersection"
        /\ HasOnlyStringIndex(folds[c].type) /\ isObjectType(folds[c].type)
        /\ FirstCategory(folds[c].type) = 9
        /\ folds[c].handler = "stringIndexObject"

\* C4 as stated: every folded type with a string index signature and no
\* numeric one is dispatched to the stringIndexObject handler.
StringIndexAlwaysStringIndexObject ==
    \A c \in FoldIds :
        (folds[c].type # NoType /\ ~folds[c].threw
            /\ HasOnlyStringIndex(folds[c].type)) =>
                folds[c].handler = "stringIndexObject"

Keys(s) == { s[i].key : i \in 1..Len(s) }

Position(ps, key) == CHOOSE i \in 1..Len(ps) : ps[i].name = key

InEnumerationOrder(ps, s) ==
    \A i, j \in 1..Len(s) :
        i < j => Position(ps, s[i].key) < Position(ps, s[j].key)

\* C5: in every object handler call the required and the optional keys are
\* disjoint, together they are the enumerated properties, a property is
\* optional iff its declaration has the question token, and both lists keep
\* the enumeration order without duplicates or omissions.
PartitionIsStableFilter ==
    \A c \in FoldIds :
        folds[c].handler = "object" =>
            LET ps == getPropertiesOfType(folds[c].type)
                req == folds[c].args.properties
                opt == folds[c].args.optionalProperties
            IN  /\ Keys(req) \cap Keys(opt) = {}
                /\ Keys(req) \cup Keys(opt) = { ps[i].name : i \in 1..Len(ps) }
                /\ Len(req) + Len(opt) = Len(ps)
                /\ \A i \in 1..Len(ps) :
                      /\ ps[i].questionToken <=> ps[i].name \in Keys(opt)
                      /\ ~ps[i].questionToken <=> ps[i].name \in Keys(req)
                /\ InEnumerationOrder(ps, req)
                /\ InEnumerationOrder(ps, opt)
                /\ \A i \in 1..Len(req) :
                      req[i].thunk = ps[Position(ps, req[i].key)].type
                /\ \A i \in 1..Len(opt) :
                      opt[i].thunk = ps[Position(ps, opt[i].key)].type

\* C5 witness: an object type whose optional and required members interleave
\* was passed to the object handler.
PartitionIsStableFilterWitness ==
    \E c \in FoldIds :
        /\ folds[c].handler = "object"
        /\ Len(folds[c].args.properties) = 1
        /\ Len(folds[c].args.optionalProperties) = 2
        /\ getPropertiesOfType(folds[c].type)[1].questionToken
        /\ ~getPropertiesOfType(folds[c].type)[2].questionToken
        /\ getPropertiesOfType(folds[c].type)[3].questionToken

IsSuffix(s, t) ==
    Len(s) <= Len(t) /\ s = SubSeq(t, Len(t) - Len(s) + 1, Len(t))

\* C6: with followImports false and the file name outside fileNames nothing
\* is extracted, folded, warned about or bound, the visitor never descends
\* below the top-level nodes, and the run returns the empty sequence;
\* otherwise the run returns one binding per top-level declaration.
SkipsForeignNodes ==
    /\ ~Admitted =>
          /\ extracted = 0 /\ folds = <<>> /\ invokes = <<>>
          /\ warnings = <<>> /\ stack = <<>> /\ result = <<>>
          /\ status # "threw"
          /\ IsSuffix(agenda, source \o <<EndOfFileToken>>)
          /\ status = "returned" => returned.value = <<>>
    /\ (Admitted /\ status = "returned") =>
          Len(returned.value) = Len(TopLevelDeclarations)
    /\ (~config.followImports /\ config.fileNames = {}
            /\ status = "returned") => returned.value = <<>>

\* C6 witness: a run over a source holding a declaration and a namespace,
\* with followImports false and no recognised file, has returned.
SkipsForeignNodesWitness ==
    /\ ~config.followImports /\ config.fileNames = {}
    /\ status = "returned"
    /\ \E i, j \in 1..Len(source) :
          isDeclaration(source[i]) /\ isModuleDeclaration(source[j])

\* C7: a fold that throws ends the run at once: the caller receives no
\* result, the failing declaration gets no binding, and nothing is extracted,
\* folded or bound afterwards.
FailureAbortsRun ==
    /\ []( /\ (\E c \in FoldIds : folds[c].threw) => status = "threw"
           /\ status = "threw" =>
                 /\ ~returned.present
                 /\ stack = <<>>
                 /\ folds # <<>> /\ folds[Len(folds)].threw
                 /\ Len(result) = extracted - 1 )
    /\ [][ status = "threw" =>
              /\ status' = "threw" /\ returned' = returned
              /\ result' = result /\ extracted' = extracted
              /\ folds' = folds /\ agenda' = agenda ]_vars

\* C7 witness: a run failed in its second declaration, after the first one
\* had been bound.
FailureAbortsRunWitness ==
    /\ status = "threw"
    /\ Len(result) = 1
    /\ extracted = 2
    /\ folds[Len(folds)].error \in {"Unknown primitive type",
                                     "Unknown type with type flags"}

\* C8: a tuple type with a rest element is passed to the tuple handler with
\* thunks for its fixed elements only, after a warning.
RestElementOmitted ==
    \A c \in FoldIds :
        (folds[c].handler = "tuple" /\ Types[folds[c].type].hasRestElement) =>
            /\ Len(folds[c].args.thunks) = Types[folds[c].type].fixedLength
            /\ warnings # <<>>

\* C9: the function handler is always called with no argument thunks and a
\* null return thunk, nothing is folded below a function type, the fold does
\* not fail and a function-typed declaration gets its binding.
FunctionPayloadEmpty ==
    /\ \A c \in FoldIds :
          (folds[c].type # NoType /\ FirstCategory(folds[c].type) = 11) =>
            /\ ~folds[c].threw
            /\ folds[c].handler = "function"
            /\ AllThunks(folds[c].args) = <<>>
            /\ folds[c].args.return = "null"
            /\ \A k \in FoldIds : folds[k].parent # c
            /\ \A k \in 1..Len(invokes) : invokes[k].call # c
    /\ (Admitted /\ status = "returned") =>
          \A i \in 1..Len(TopLevelDeclarations) :
            FirstCategory(TopLevelDeclarations[i].declarations[1].type) = 11 =>
              /\ i <= Len(returned.value)
              /\ returned.value[i].result.handler = "function"

\* C9 witness: a declaration of function type was folded and bound.
FunctionPayloadEmptyWitness ==
    /\ status = "returned"
    /\ \E i \in 1..Len(returned.value) :
          /\ returned.value[i].result.handler = "function"
          /\ Types[returned.value[i].result.type].parameters # <<>>

\* C10: the thunk given to the numberIndexObject handler folds the target of
\* the numeric index signature, the one given to the stringIndexObject
\* handler the target of the string index signature.
IndexThunkFoldsIndexTarget ==
    \A k \in FoldIds :
        folds[k].parent # 0 =>
            LET c == folds[k].parent
            IN  /\ folds[c].handler = "numberIndexObject" =>
                      folds[k].type = getNumberIndexType(folds[c].type)
                /\ folds[c].handler = "stringIndexObject" =>
                      folds[k].type = getStringIndexType(folds[c].type)

====
